---- MODULE Spec2Model ----
(***************************************************************************)
(* A model of tiledbcontents.py: the contents manager that maps virtual    *)
(* paths cloud/<category>/<namespace>/<name>[.ipynb] onto TileDB Cloud     *)
(* arrays.                                                                 *)
(*                                                                         *)
(* Strings are sequences of lexemes: a lexeme is a separator ("/", "\\",   *)
(* ".", "-"), one decimal digit, or a word ("cloud", "owned", "foo", ...). *)
(* No word is a concatenation of other lexemes, so two strings are equal   *)
(* iff their lexeme sequences are equal, and Python's split, strip,        *)
(* partition, endswith and isdigit are computed on the sequence.           *)
(***************************************************************************)
EXTENDS Integers, Sequences, FiniteSets, TLC

VARIABLES
    os_sep,      \* os.sep of the platform the server runs on
    path,        \* path classifier: the path under test
    path2,       \* path classifier: a second path, for resolve
    isRemote,    \* path classifier: <<_is_remote_path(path)>>, <<>> before the call
    isRemoteDir, \* path classifier: <<_is_remote_dir(path)>>, <<>> before the call
    uri1,        \* path classifier: tiledb_uri_from_path(path), <<>> before the call
    uri2,        \* path classifier: tiledb_uri_from_path(path2), <<>> before the call
    fname,       \* file names: the file name _increment_filename is given next
    prevName,    \* file names: the name the last call was given
    incrs,       \* file names: the number of calls made
    arrays,      \* backend: <<namespace, name>> -> array
    pc,          \* contents manager: "idle", or the place of the save under way
    req,         \* contents manager: the save request under way
    curUri,      \* contents manager: the uri create or write is at
    retry,       \* contents manager: create's remaining retry budget
    attempts,    \* history: the backend create calls of the create under way
    collisions,  \* history: its consecutive "already exists" failures
    otherErrs,   \* history: its backend errors other than "already exists"
    made,        \* history: the arrays it made in the backend
    outcome,     \* the result of the last request served
    nops,        \* the number of requests served
    catalog,     \* catalog service: the records its list calls return, and its health
    profile,     \* catalog service: the current user's profile
    frames,      \* local delegate: the calls under way, the innermost last
    call,        \* local delegate: the request under way
    localOps     \* local delegate: the file operations of the request done

pathVars == <<path, path2, isRemote, isRemoteDir, uri1, uri2>>

nameVars == <<fname, prevName, incrs>>

saveVars == <<pc, req, curUri, retry, attempts, collisions, otherErrs, made>>

backVars == <<arrays, saveVars, outcome, nops>>

listVars == <<catalog, profile>>

localVars == <<frames, call, localOps>>

vars == <<os_sep, listVars, localVars, pathVars, nameVars, backVars>>

----------------------------------------------------------------------------
(* Python's str operations, on lexeme sequences.                           *)

\* str.split(sep) for a one-lexeme separator: "".split("/") is [""].
RECURSIVE SplitFrom(_, _, _, _)
SplitFrom(s, sep, i, cur) ==
    IF i > Len(s) THEN <<cur>>
    ELSE IF s[i] = sep THEN <<cur>> \o SplitFrom(s, sep, i + 1, <<>>)
    ELSE SplitFrom(s, sep, i + 1, Append(cur, s[i]))

Split(s, sep) == SplitFrom(s, sep, 1, <<>>)

\* sep.join(parts)
RECURSIVE Join(_, _)
Join(parts, sep) ==
    IF Len(parts) = 0 THEN <<>>
    ELSE IF Len(parts) = 1 THEN parts[1]
    ELSE parts[1] \o <<sep>> \o Join(Tail(parts), sep)

\* str.strip(ch): drops every leading and trailing ch.
RECURSIVE LStrip(_, _)
LStrip(s, ch) ==
    IF Len(s) > 0 /\ s[1] = ch THEN LStrip(Tail(s), ch) ELSE s

RECURSIVE RStrip(_, _)
RStrip(s, ch) ==
    IF Len(s) > 0 /\ s[Len(s)] = ch THEN RStrip(SubSeq(s, 1, Len(s) - 1), ch) ELSE s

Strip(s, ch) == RStrip(LStrip(s, ch), ch)

\* str.endswith(suffix)
EndsWith(s, suffix) ==
    /\ Len(s) >= Len(suffix)
    /\ SubSeq(s, Len(s) - Len(suffix) + 1, Len(s)) = suffix

\* A Python list index: parts[i] with i zero-based, a negative i counting
\* from the end (parts[-1] is the last element).
PyIndex(parts, i) == IF i >= 0 THEN parts[i + 1] ELSE parts[Len(parts) + i + 1]

----------------------------------------------------------------------------
(* Program constants.                                                      *)

NOTEBOOK_EXT == <<".", "ipynb">>

Categories == {<<"owned">>, <<"public">>, <<"shared">>}

CLOUD == <<"cloud">>

----------------------------------------------------------------------------
(* The path classifier and the URI resolver.                               *)

\* A classifier that tests path.startswith("cloud") instead of the first segment.
IsRemotePathPrefix(p, sep) == Len(p) > 0 /\ p[1] = "cloud"

\* _is_remote_path: the first segment, split on os.sep or on "/", is "cloud".

IsRemotePath(p, sep) ==
    \/ Split(p, sep)[1] = CLOUD
    \/ Split(p, "/")[1] = CLOUD

\* One round of the loop of _is_remote_dir, for one separator.
IsRemoteDirFor(p, sep) ==
    LET splits == Split(p, sep) IN
    \/ Len(splits) = 1 /\ splits[1] = CLOUD
    \/ /\ Len(splits) = 2 \/ Len(splits) = 3
       /\ splits[1] = CLOUD
       /\ splits[2] \in Categories

\* A classifier that does not bound the number of segments.
IsRemoteDirDeep(p, sep) ==
    \E s \in {sep, "/"} :
        LET splits == Split(p, s) IN
        \/ Len(splits) = 1 /\ splits[1] = CLOUD
        \/ Len(splits) >= 2 /\ splits[1] = CLOUD /\ splits[2] \in Categories

\* _is_remote_dir: for sep in [os.sep, "/"]
IsRemoteDir(p, sep) == IsRemoteDirFor(p, sep) \/ IsRemoteDirFor(p, "/")

\* The parts tiledb_uri_from_path works on: split on os.sep, and on "/" when
\* that leaves a single part.
UriParts(p, sep) ==
    LET parts == Split(p, sep) IN
    IF Len(parts) = 1 THEN Split(p, "/") ELSE parts

TiledbUri(namespace, name) == <<"tiledb:", "/", "/">> \o namespace \o <<"/">> \o name

\* A resolver that takes the namespace from the first part of the path.
TiledbUriFromPathFirst(p, sep) ==
    LET parts  == UriParts(p, sep)
        length == Len(parts)
    IN  TiledbUri(PyIndex(parts, 0), PyIndex(parts, length - 1))

\* tiledb_uri_from_path: "tiledb://{}/{}".format(parts[length - 2], parts[length - 1])
TiledbUriFromPath(p, sep) ==
    LET parts  == UriParts(p, sep)
        length == Len(parts)
    IN  TiledbUri(PyIndex(parts, length - 2), PyIndex(parts, length - 1))

----------------------------------------------------------------------------
(* The paths the classifier is checked on: up to MaxSegs segments drawn    *)
(* from PathSegs, joined by "/" or "\\".                                   *)

MaxSegs == 4

PathSegs == { <<>>, <<"cloud">>, <<"cloud", "y">>, <<"owned">>, <<"x">> }

Seps == {"/", "\\"}

RECURSIVE PathsOf(_)
PathsOf(n) ==
    IF n = 1 THEN PathSegs
    ELSE PathSegs \cup
         { p \o <<s>> \o g : p \in PathsOf(n - 1), s \in Seps, g \in PathSegs }

Paths == PathsOf(MaxSegs) \cup {<<".">>}

\* The second path of a resolve pair: a trailing pair behind some prefix.
Paths2 ==
    { pre \o ns \o <<"/">> \o <<"x">> :
        pre \in {<<>>, <<"cloud", "/", "owned", "/">>, <<"x", "/", "y", "/">>},
        ns \in {<<"owned">>} }

\* Python's None, where a string or a model field may be None.
NoneV == "None"

\* The write a save asks for: the path, the content and the metadata keys
\* it gives, whether the array was there, the type it writes, and (prev) what
\* a read of the leaf returned before the write began.
NoReq == [path |-> <<>>, fixed |-> <<>>, nb |-> <<>>, mimetype |-> NoneV,
          format |-> NoneV, existed |-> FALSE, type |-> NoneV, prev |-> <<>>]

\* A model as get returns it, or what get raised instead (kind).
NoModel ==
    [kind |-> "none", code |-> 0, type |-> NoneV, name |-> <<>>, path |-> <<>>,
     content |-> <<>>, format |-> NoneV, mimetype |-> NoneV, writable |-> TRUE,
     message |-> <<>>]

\* The result of a request: what it returned (kind "ok", with the model) or
\* raised (kind "http_error" with its code, kind "error" for an exception
\* that is no HTTPError), the array it wrote and the bytes, how the call of
\* _create_array ended, if it made one, and what file_exists answered.  For
\* a rename, model is what get returned for the old path before it.  For a
\* get, content is whether the content was asked for and type the type it
\* was given; message is the message of the error raised.  For a
\* guess_type, guessed is what it returned.
NoOutcome ==
    [op |-> "none", kind |-> "none", code |-> 0, path |-> <<>>, old |-> <<>>,
     key |-> <<>>, bytes |-> <<>>, createEnd |-> "none", exists |-> FALSE,
     model |-> NoModel, message |-> <<>>, content |-> FALSE, type |-> NoneV,
     guessed |-> NoneV]

Alice == <<"alice">>

\* A request for a local path: nothing yet.
NoCall == [op |-> "none", old |-> <<>>, new |-> <<>>]

\* No request for a local path is under way.
LocalIdle ==
    /\ frames = <<>>
    /\ call = NoCall
    /\ localOps = 0

\* The catalog lists nothing and answers; the user is alice, in no organization.
ListIdle ==
    /\ catalog = [records |-> <<>>, fails |-> "none"]
    /\ profile = [username |-> Alice, organizations |-> <<>>]

\* No request is being served and the catalog is empty.
BackIdle ==
    /\ ListIdle
    /\ arrays = <<>>
    /\ pc = "idle"
    /\ req = NoReq
    /\ curUri = <<>>
    /\ retry = 0
    /\ attempts = 0
    /\ collisions = 0
    /\ otherErrs = 0
    /\ made = {}
    /\ outcome = NoOutcome
    /\ nops = 0

Unset == <<>>

\* No call of the classifier is under way.
PathIdle ==
    /\ path = <<>>
    /\ path2 = <<>>
    /\ isRemote = Unset
    /\ isRemoteDir = Unset
    /\ uri1 = Unset
    /\ uri2 = Unset

\* No call of _increment_filename is under way.
NameIdle ==
    /\ fname = <<>>
    /\ prevName = <<>>
    /\ incrs = 0

InitPath ==
    /\ os_sep \in Seps
    /\ LocalIdle
    /\ NameIdle
    /\ BackIdle
    /\ path \in Paths
    /\ path2 = <<>>
    /\ isRemote = Unset
    /\ isRemoteDir = Unset
    /\ uri1 = Unset
    /\ uri2 = Unset

\* A call of _is_remote_path(path)
CallIsRemotePath ==
    /\ isRemote = Unset
    /\ isRemote' = <<IsRemotePath(path, os_sep)>>
    /\ UNCHANGED <<os_sep, listVars, localVars, nameVars, backVars, path, path2, isRemoteDir, uri1, uri2>>

\* A call of _is_remote_dir(path)
CallIsRemoteDir ==
    /\ isRemote # Unset
    /\ isRemoteDir = Unset
    /\ isRemoteDir' = <<IsRemoteDir(path, os_sep)>>
    /\ UNCHANGED <<os_sep, listVars, localVars, nameVars, backVars, path, path2, isRemote, uri1, uri2>>

\* Calls of tiledb_uri_from_path, on path and on a second path
CallTiledbUriFromPath ==
    /\ isRemoteDir # Unset
    /\ uri1 = Unset
    /\ \E q \in Paths2 :
        /\ path2' = q
        /\ uri1' = TiledbUriFromPath(path, os_sep)
        /\ uri2' = TiledbUriFromPath(q, os_sep)
    /\ UNCHANGED <<os_sep, listVars, localVars, nameVars, backVars, path, isRemote, isRemoteDir>>

NextPath == CallIsRemotePath \/ CallIsRemoteDir \/ CallTiledbUriFromPath

SpecPath == InitPath /\ [][NextPath]_vars

----------------------------------------------------------------------------
(* The path classifier's properties.                                       *)

\* The first segment of p is the literal "cloud", the segments being cut at
\* "/" or at the platform separator: p is "cloud", or "cloud" and a separator
\* start it.
FirstSegmentIsCloud(p, sep) ==
    \/ p = CLOUD
    \/ Len(p) >= 2 /\ p[1] = "cloud" /\ p[2] \in {"/", sep}

\* C8: isRemote(p) is true for every path whose first segment is the literal
\* "cloud" and false for every other path, "cloudy/x", "" and "." included.
C8_IsRemoteIffFirstSegmentCloud ==
    isRemote # Unset => (isRemote[1] <=> FirstSegmentIsCloud(path, os_sep))

\* "cloudy/x" was classified, and is not remote.
C8_Witness ==
    /\ path = <<"cloud", "y", "/", "x">>
    /\ isRemote = <<FALSE>>

\* The number of separators s in p.
NumSep(p, s) == Cardinality({ i \in 1..Len(p) : p[i] = s })

\* p is "cloud", or "cloud", a separator, a category, and at most one more
\* segment: one or two segments after "cloud", the first a category.
DirShape(p, s) ==
    \/ p = CLOUD
    \/ /\ Len(p) >= 3
       /\ p[1] = "cloud" /\ p[2] = s
       /\ <<p[3]>> \in Categories
       /\ Len(p) = 3 \/ p[4] = s
       /\ NumSep(p, s) \in {1, 2}

\* C9: isRemoteDirectory(p) is true exactly when p is "cloud" or has one or
\* two segments after "cloud" of which the first is a category; it is false
\* for three or more segments after "cloud" and for a non-category segment.
C9_IsRemoteDirIffShape ==
    isRemoteDir # Unset =>
        (isRemoteDir[1] <=> \E s \in {"/", os_sep} : DirShape(path, s))

\* A leaf below a namespace was classified, and is no directory.
C9_Witness ==
    /\ path = <<"cloud", "/", "owned", "/", "x", "/", "x">>
    /\ isRemoteDir = <<FALSE>>

\* The separator that cuts p into segments: the platform's when p holds it,
\* "/" otherwise.
SepOf(p, sep) == IF \E i \in 1..Len(p) : p[i] = sep THEN sep ELSE "/"

\* The last place at or before i where p holds s; 0 when there is none.
RECURSIVE LastPlace(_, _, _)
LastPlace(p, s, i) ==
    IF i = 0 THEN 0 ELSE IF p[i] = s THEN i ELSE LastPlace(p, s, i - 1)

HasTwoSegments(p, sep) == LastPlace(p, SepOf(p, sep), Len(p)) > 0

\* The last segment of p (the name) and the one before it (the namespace).
NameOf(p, sep) == SubSeq(p, LastPlace(p, SepOf(p, sep), Len(p)) + 1, Len(p))

NamespaceOf(p, sep) ==
    LET s    == SepOf(p, sep)
        last == LastPlace(p, s, Len(p))
    IN  SubSeq(p, LastPlace(p, s, last - 1) + 1, last - 1)

\* C10: resolve depends only on the last two segments of its path: two paths
\* with the same last two segments (namespace, name) resolve to the same URI
\* tiledb://<namespace>/<name>, whatever precedes them.
C10_ResolveUsesLastTwoSegments ==
    uri1 # Unset =>
        /\ HasTwoSegments(path, os_sep) =>
               uri1 = <<"tiledb:", "/", "/">> \o NamespaceOf(path, os_sep)
                          \o <<"/">> \o NameOf(path, os_sep)
        /\ ( /\ HasTwoSegments(path, os_sep)
             /\ HasTwoSegments(path2, os_sep)
             /\ NamespaceOf(path, os_sep) = NamespaceOf(path2, os_sep)
             /\ NameOf(path, os_sep) = NameOf(path2, os_sep) ) => uri1 = uri2

\* Two paths of different depth with the same trailing pair were resolved.
C10_Witness ==
    /\ uri1 # Unset
    /\ path = <<"x", "/", "owned", "/", "x">>
    /\ path2 = <<"cloud", "/", "owned", "/", "owned", "/", "x">>
    /\ uri1 = uri2

----------------------------------------------------------------------------
(* _increment_filename: the name create tries after a name collision.      *)

Digits == <<"0", "1", "2", "3", "4", "5", "6", "7", "8", "9">>

DigitChars == { Digits[i] : i \in 1..Len(Digits) }

DigitValue(ch) == (CHOOSE i \in 1..Len(Digits) : Digits[i] = ch) - 1

\* str.isdigit(): at least one character, and all of them digits.
IsDigit(s) == Len(s) > 0 /\ \A i \in 1..Len(s) : s[i] \in DigitChars

\* int(s) of a digit string
RECURSIVE ParseInt(_)
ParseInt(s) ==
    IF Len(s) = 0 THEN 0
    ELSE 10 * ParseInt(SubSeq(s, 1, Len(s) - 1)) + DigitValue(s[Len(s)])

\* "{}".format(n) of a natural number
RECURSIVE FormatInt(_)
FormatInt(n) ==
    IF n < 10 THEN <<Digits[n + 1]>>
    ELSE FormatInt(n \div 10) \o <<Digits[(n % 10) + 1]>>

\* The first place at or after i where s holds ch; 0 when there is none.
RECURSIVE FirstPlace(_, _, _)
FirstPlace(s, ch, i) ==
    IF i > Len(s) THEN 0 ELSE IF s[i] = ch THEN i ELSE FirstPlace(s, ch, i + 1)

\* str.partition(ch): <<head, ch, tail>> at the first ch, <<s, "", "">> without one.
Partition(s, ch) ==
    LET i == FirstPlace(s, ch, 1) IN
    IF i = 0 THEN <<s, <<>>, <<>>>>
    ELSE <<SubSeq(s, 1, i - 1), <<ch>>, SubSeq(s, i + 1, Len(s))>>

\* str.rpartition(ch): <<head, ch, tail>> at the last ch, <<"", "", s>> without one.
RPartition(s, ch) ==
    LET i == LastPlace(s, ch, Len(s)) IN
    IF i = 0 THEN <<<<>>, <<>>, s>>
    ELSE <<SubSeq(s, 1, i - 1), <<ch>>, SubSeq(s, i + 1, Len(s))>>

\* The <<basename, dot, ext>> of a file name: cut at the last "." for a
\* notebook, at the first "." otherwise (so that .tar.gz is one suffix).
NameCut(filename) ==
    LET r == RPartition(filename, ".") IN
    IF r[3] # <<"ipynb">> THEN Partition(filename, ".") ELSE r

\* _increment_filename(filename, insert)
IncrementFilename(filename, insert) ==
    LET cut      == NameCut(filename)
        suffix   == cut[2] \o cut[3]
        parts    == Split(cut[1], insert)
        startStr == parts[Len(parts)]
        start0   == IF Len(parts) > 1 /\ IsDigit(startStr) THEN ParseInt(startStr) ELSE 0
        basename == IF Len(parts) > 1
                    THEN Join(SubSeq(parts, 1, Len(parts) - 1), insert)
                    ELSE cut[1]
        start    == start0 + 1
        insert_i == IF start # 0 THEN <<insert>> \o FormatInt(start) ELSE <<>>
    IN  basename \o insert_i \o suffix

(* The file names the increment is checked on: a base name of up to        *)
(* MaxBase lexemes that starts with a word and does not end in the         *)
(* separator, with no suffix, the notebook suffix or a double one.         *)

MaxBase == 5

BaseChars == {"foo", "old", "-", "2", "9"}

RECURSIVE BasesOf(_)
BasesOf(n) ==
    IF n = 0 THEN {<<>>}
    ELSE BasesOf(n - 1) \cup { Append(b, c) : b \in BasesOf(n - 1), c \in BaseChars }

Suffixes == { <<>>, <<".", "ipynb">>, <<".", "tar", ".", "gz">> }

BaseNames ==
    { b \in BasesOf(MaxBase) : Len(b) > 0 /\ b[1] \in {"foo", "old"} /\ b[Len(b)] # "-" }

FileNames == { b \o x : b \in BaseNames, x \in Suffixes }

MaxIncrements == 2

InitName ==
    /\ os_sep \in Seps
    /\ LocalIdle
    /\ PathIdle
    /\ BackIdle
    /\ fname \in FileNames
    /\ prevName = <<>>
    /\ incrs = 0

\* A call of _increment_filename on the name the last call returned
CallIncrementFilename ==
    /\ incrs < MaxIncrements
    /\ prevName' = fname
    /\ fname' = IncrementFilename(fname, "-")
    /\ incrs' = incrs + 1
    /\ UNCHANGED <<os_sep, listVars, localVars, pathVars, backVars>>

NextName == CallIncrementFilename

SpecName == InitName /\ [][NextName]_vars

----------------------------------------------------------------------------
(* The collision rename's properties.                                      *)

\* The base name b ends in the separator and a number: "-<digits>".
HasNumericSuffix(b) ==
    LET i == LastPlace(b, "-", Len(b)) IN
    i > 0 /\ IsDigit(SubSeq(b, i + 1, Len(b)))

\* The name the rule of C5 derives from a file name: "-1" before the
\* extension when the base name has no numeric suffix, the suffix
\* incremented otherwise.
NextNameByRule(filename) ==
    LET cut == NameCut(filename)
        b   == cut[1]
        i   == LastPlace(b, "-", Len(b))
    IN  IF HasNumericSuffix(b)
        THEN SubSeq(b, 1, i) \o FormatInt(ParseInt(SubSeq(b, i + 1, Len(b))) + 1)
                 \o cut[2] \o cut[3]
        ELSE b \o <<"-", "1">> \o cut[2] \o cut[3]

\* C5: on a name collision the next name is the name with "-1" appended
\* before the extension when it has no numeric suffix, and with the numeric
\* suffix incremented otherwise (foo.ipynb, foo-1.ipynb, foo-2.ipynb).
C5_NextNameAppendsOrIncrements ==
    incrs > 0 => fname = NextNameByRule(prevName)

----------------------------------------------------------------------------
(* The backend: TileDB Cloud's catalog and the arrays behind it.  An array *)
(* is registered under <<namespace, name>>; tiledb://namespace/name is its *)
(* uri.  Its cells are a sparse map from position to byte, its metadata a  *)
(* map from key to value.                                                  *)

TAG_JUPYTER_NOTEBOOK == "__jupyter-notebook"

\* The <<namespace, name>> a uri tiledb://namespace/name addresses.
KeyOfUri(uri) ==
    LET parts == Split(uri, "/") IN
    <<parts[3], Join(SubSeq(parts, 4, Len(parts)), "/")>>

\* The array tiledb.SparseArray.create leaves: no cell, no metadata, no tag.
NewArray == [cells |-> <<>>, meta |-> <<>>, tags |-> {}]

\* A.meta[k] = v
MetaSet(meta, k, v) == [x \in DOMAIN meta \cup {k} |-> IF x = k THEN v ELSE meta[x]]

\* A write that sets a key whether or not a value is given.
MetaSetAlways(meta, k, v) == MetaSet(meta, k, v)

\* A.meta[k] = v, when v is not None
MetaSetIfGiven(meta, k, v) == IF v # NoneV THEN MetaSet(meta, k, v) ELSE meta

\* A[range(len(contents))] = {"contents": contents}
WriteCells(A, contents) ==
    LET n == Len(contents) IN
    [A EXCEPT !.cells = [i \in DOMAIN A.cells \cup 0..(n - 1) |->
                            IF i < n THEN contents[i + 1] ELSE A.cells[i]]]

\* A.meta["file_size"] = len(contents), and the keys that are given
WriteMeta(A, n, mimetype, format, type) ==
    [A EXCEPT !.meta = MetaSetIfGiven(
                           MetaSetIfGiven(
                               MetaSetIfGiven(MetaSet(A.meta, "file_size", n),
                                              "mimetype", mimetype),
                               "format", format),
                           "type", type)]

\* The body of "with tiledb.open(uri, mode='w') as A" in _write_bytes_to_array:
\* the cells 0..len-1 are overwritten, cells beyond them stay, file_size is
\* set, and mimetype, format and type are set when given.
WriteContents(A, contents, mimetype, format, type) ==
    WriteMeta(WriteCells(A, contents), Len(contents), mimetype, format, type)

\* A[slice(i, n)] of a sparse array: the cells at positions i..n-1, in order.
RECURSIVE SliceCells(_, _, _)
SliceCells(cells, i, n) ==
    IF i >= n THEN <<>>
    ELSE (IF i \in DOMAIN cells THEN <<cells[i]>> ELSE <<>>) \o SliceCells(cells, i + 1, n)

\* A read that takes every cell of the array, whatever file_size says.
ReadContentsAll(A) ==
    IF "file_size" \in DOMAIN A.meta
    THEN SliceCells(A.cells, 0, Cardinality(DOMAIN A.cells))
    ELSE <<>>

\* The bytes _file_from_array and _notebook_from_array read: the slice
\* [0, file_size), and nothing when there is no file_size.
ReadContents(A) ==
    IF "file_size" \in DOMAIN A.meta
    THEN SliceCells(A.cells, 0, A.meta["file_size"])
    ELSE <<>>

(* A notebook is <<"lang" or "nolang">> \o cells: whether its metadata     *)
(* holds language_info, and its cells.  json.dumps writes it as an opening *)
(* byte that carries the flag, the cells and a closing byte; nbformat's    *)
(* reads parses that back and fails on anything else.                      *)

Dumps(nb) == <<IF nb[1] = "lang" THEN "{L" ELSE "{N">> \o Tail(nb) \o <<"}">>

IsJson(bytes) ==
    /\ Len(bytes) >= 2
    /\ bytes[1] \in {"{L", "{N"}
    /\ bytes[Len(bytes)] = "}"

Reads(bytes) ==
    <<IF bytes[1] = "{L" THEN "lang" ELSE "nolang">> \o SubSeq(bytes, 2, Len(bytes) - 1)

HasLanguageInfo(nb) == nb[1] = "lang"

----------------------------------------------------------------------------
(* The model builder and the read side of the contents manager.            *)

\* path.rsplit("/", 1)[-1]
LastOfPath(p) == SubSeq(p, LastPlace(p, "/", Len(p)) + 1, Len(p))

\* base_model(path)
BaseModel(p) ==
    [kind |-> "model", code |-> 0, type |-> NoneV, name |-> LastOfPath(p), path |-> p,
     content |-> <<NoneV>>, format |-> NoneV, mimetype |-> NoneV, writable |-> TRUE,
     message |-> <<>>]

\* What a call returns when it raises instead: an HTTPError with its code
\* (kind "http_error"), or another exception (kind "error").
Raised(kind, code) == [NoModel EXCEPT !.kind = kind, !.code = code]

\* path[: -len(NOTEBOOK_EXT)] when path ends in NOTEBOOK_EXT
StripExt(p) ==
    IF EndsWith(p, NOTEBOOK_EXT) THEN SubSeq(p, 1, Len(p) - Len(NOTEBOOK_EXT)) ELSE p

\* _array_exists(path): tiledb.cloud.array.info finds the array.
ArrayExists(a, p, sep) == KeyOfUri(TiledbUriFromPath(p, sep)) \in DOMAIN a

\* A reader that takes every array to have been written.
HasFileSizeAlways(meta) == TRUE

\* "file_size" in meta
HasFileSize(meta) == "file_size" \in DOMAIN meta

\* _notebook_from_array(uri, content)
NotebookFromArray(a, p, content, sep) ==
    LET model == [BaseModel(p) EXCEPT !.type = "notebook"]
        key   == KeyOfUri(TiledbUriFromPath(p, sep))
    IN  IF ~content THEN model
        ELSE IF key \notin DOMAIN a THEN Raised("http_error", 400)
        ELSE IF ~HasFileSize(a[key].meta)
             THEN [model EXCEPT !.format = "json", !.content = <<>>]
        ELSE IF ~IsJson(ReadContents(a[key])) THEN Raised("error", 0)
        ELSE [model EXCEPT !.format = "json", !.content = Reads(ReadContents(a[key]))]

\* _file_from_array(uri, content, format)
FileFromArray(a, p, content, format, sep) ==
    LET model == [BaseModel(p) EXCEPT !.type = "file"]
        key   == KeyOfUri(TiledbUriFromPath(p, sep))
    IN  IF ~content THEN model
        ELSE IF key \notin DOMAIN a THEN Raised("http_error", 500)
        ELSE
            LET meta == a[key].meta
                m1   == IF "mimetype" \in DOMAIN meta
                        THEN [model EXCEPT !.mimetype = meta["mimetype"]] ELSE model
                m2   == [m1 EXCEPT !.format =
                            IF "format" \in DOMAIN meta THEN meta["format"] ELSE format]
                m3   == IF "type" \in DOMAIN meta
                        THEN [m2 EXCEPT !.type = meta["type"]] ELSE m2
                m4   == [m3 EXCEPT !.content = ReadContents(a[key])]
            IN  IF /\ "type" \in DOMAIN meta
                   /\ meta["type"] = "notebook"
                   /\ "file_size" \in DOMAIN meta
                THEN IF ~IsJson(ReadContents(a[key])) THEN Raised("error", 0)
                     ELSE [m4 EXCEPT !.format = "json",
                                     !.content = Reads(ReadContents(a[key]))]
                ELSE m4

\* _get_type(uri): the type of the array's metadata, None without one;
\* "raise" when tiledb.open fails.
GetType(a, uri) ==
    LET key == KeyOfUri(uri) IN
    IF key \notin DOMAIN a THEN "raise"
    ELSE IF "type" \in DOMAIN a[key].meta THEN a[key].meta["type"] ELSE NoneV

\* guess_type(path) of a remote path
GuessType(a, p, sep) ==
    LET path_fixed == Strip(p, "/") IN
    IF IsRemoteDir(path_fixed, sep) THEN "directory"
    ELSE LET t == GetType(a, TiledbUriFromPath(StripExt(path_fixed), sep)) IN
         IF t = "raise" THEN "directory" ELSE t

----------------------------------------------------------------------------
(* The directory synthesizer: listings built from the catalog's answers.   *)

\* str.format: each slot "{}" of the template takes the next argument; the
\* arguments left over when the slots run out are dropped.
RECURSIVE Format(_, _)
Format(template, args) ==
    IF template = <<>> THEN <<>>
    ELSE IF Head(template) = "{}"
         THEN (IF args = <<>> THEN <<>> ELSE Head(args))
                  \o Format(Tail(template), IF args = <<>> THEN <<>> ELSE Tail(args))
         ELSE <<Head(template)>> \o Format(Tail(template), args)

\* str(e) of the error a failing backend call raises.
BackendMessage == <<"backend message">>

\* How a call of the catalog ends: it answers, or raises a TileDBCloudError
\* or another TileDBError.
Failures == {"none", "cloud", "tiledb"}

\* http_error(code, message)
HttpError(code, message) ==
    [NoModel EXCEPT !.kind = "http_error", !.code = code, !.message = message]

\* The content None of a directory model, whose content is a list of models.
NoContent == <<[NoModel EXCEPT !.kind = "None"]>>

\* base_directory_model(path)
BaseDirectoryModel(p) ==
    [BaseModel(p) EXCEPT !.type = "directory", !.format = "json", !.content = NoContent]

Owned == <<"owned">>

Shared == <<"shared">>

Public == <<"public">>

\* The tagged arrays of the backend as the records the catalog lists for
\* their owner, in an order the catalog fixes.
RECURSIVE RecordsOf(_, _)
RecordsOf(a, keys) ==
    IF keys = {} THEN <<>>
    ELSE LET k == CHOOSE x \in keys : TRUE IN
         <<[category |-> Owned, namespace |-> k[1], name |-> k[2],
            actions |-> {"read", "write"}]>> \o RecordsOf(a, keys \ {k})

\* tiledb.cloud.client.list_arrays, list_shared_arrays, list_public_arrays
\* with tag=[TAG_JUPYTER_NOTEBOOK]: the records of the category, in the
\* catalog's order.
ListArrays(a, category) ==
    SelectSeq(catalog.records
                  \o RecordsOf(a, { k \in DOMAIN a : TAG_JUPYTER_NOTEBOOK \in a[k].tags }),
              LAMBDA r : r.category = category)

\* The same calls with namespace=namespace.
ListArraysIn(a, category, namespace) ==
    SelectSeq(ListArrays(a, category), LAMBDA r : r.namespace = namespace)

\* The leaf a namespace listing builds for a record; the writable flag of
\* the record is set on the directory model, not on the leaf.
LeafOf(category, namespace, notebook) ==
    [BaseModel(notebook.name) EXCEPT
        !.path = Format(<<"cloud", "/", "{}", "/", "{}", "/", "{}", "{}">>,
                        <<category, namespace, notebook.name, NOTEBOOK_EXT>>),
        !.type = "notebook"]

RECURSIVE LeavesOf(_, _, _)
LeavesOf(category, namespace, records) ==
    IF records = <<>> THEN <<>>
    ELSE <<LeafOf(category, namespace, Head(records))>>
             \o LeavesOf(category, namespace, Tail(records))

\* __list_namespace(category, namespace, content)
ListNamespace(a, category, namespace, content) ==
    LET listed  == IF category \in Categories
                   THEN ListArraysIn(a, category, namespace) ELSE <<>>
        model   == [BaseDirectoryModel(namespace) EXCEPT
                       !.path = Format(<<"cloud", "/", "{}", "/", "{}">>,
                                       <<category, namespace>>)]
        allMay  == \A i \in 1..Len(listed) : "write" \in listed[i].actions
    IN  IF category \in Categories /\ catalog.fails = "cloud"
        THEN HttpError(500, Format(<<"Error listing notebooks in ", "{}", ": ">>,
                                   <<namespace, BackendMessage>>))
        ELSE IF category \in Categories /\ catalog.fails = "tiledb"
        THEN HttpError(500, BackendMessage)
        ELSE IF ~content THEN model
        ELSE [model EXCEPT !.content = LeavesOf(category, namespace, listed),
                           !.writable = allMay]

\* The elements of a sequence, each once, in the order of their first
\* occurrence: the keys of a dict filled in that order.
RECURSIVE Distinct(_)
Distinct(s) ==
    IF s = <<>> THEN <<>>
    ELSE LET front == Distinct(SubSeq(s, 1, Len(s) - 1))
             last  == s[Len(s)]
         IN  IF \E i \in 1..Len(front) : front[i] = last THEN front
             ELSE Append(front, last)

\* The namespace node a category listing builds.
NamespaceNode(category, namespace, writable) ==
    [BaseDirectoryModel(namespace) EXCEPT
        !.path = Format(<<"cloud", "/", "{}", "/", "{}">>, <<category, namespace>>),
        !.writable = writable]

\* The organizations of the profile alone, without the user.
ProfileOrganizations ==
    SelectSeq(profile.organizations, LAMBDA org : org # Public)

\* The namespaces of the profile: the user, then the organizations that are
\* not named public.
ProfileNamespaces ==
    Distinct(<<profile.username>>
                 \o SelectSeq(profile.organizations, LAMBDA org : org # Public))

\* __list_category(category, content): only the shared and the public
\* category ask the catalog; the owned one has no records and takes its
\* nodes from the profile.
ListCategory(a, category, content) ==
    LET asks    == category \in {Shared, Public}
        listed  == IF asks THEN ListArrays(a, category) ELSE <<>>
        model   == [BaseDirectoryModel(category) EXCEPT
                       !.path = Format(<<"cloud", "/", "{}">>, <<category>>)]
        spaces  == Distinct([i \in 1..Len(listed) |-> listed[i].namespace])
        nodes   == IF listed = <<>> /\ category = Owned
                   THEN [i \in 1..Len(ProfileNamespaces) |->
                            NamespaceNode(category, ProfileNamespaces[i], TRUE)]
                   ELSE [i \in 1..Len(spaces) |->
                            NamespaceNode(category, spaces[i], FALSE)]
    IN  IF asks /\ catalog.fails = "cloud"
        THEN HttpError(500, Format(<<"Error listing notebooks in ", "{}", ": ", "{}">>,
                                   <<category, BackendMessage>>))
        ELSE IF asks /\ catalog.fails = "tiledb"
        THEN HttpError(500, BackendMessage)
        ELSE IF category = <<NoneV>>
        \* base_directory_model(None): None has no rsplit
        THEN Raised("error", 0)
        ELSE IF ~content THEN model
        ELSE [model EXCEPT !.content = nodes]

\* The leaf the root listing builds for a record: its path has no namespace.
RootLeafOf(category, notebook) ==
    [BaseModel(notebook.name) EXCEPT
        !.path = Format(<<"cloud", "/", "{}", "/", "{}", "{}">>,
                        <<category, notebook.name, NOTEBOOK_EXT>>),
        !.type = "notebook"]

\* One category child of the root listing: its records as leaves, and no
\* content at all when it has no record.
RootChild(a, category) ==
    LET listed == ListArrays(a, category) IN
    [BaseDirectoryModel(category) EXCEPT
        !.path = Format(<<"cloud", "/", "{}">>, <<category>>),
        !.content = IF listed = <<>> THEN NoContent
                    ELSE [i \in 1..Len(listed) |-> RootLeafOf(category, listed[i])]]

\* __build_cloud_notebook_lists(): the children owned, public, shared.
BuildCloudNotebookLists(a) ==
    <<RootChild(a, Owned), RootChild(a, Public), RootChild(a, Shared)>>

\* parts[1] of the path split at os.sep, when parts[0] is "cloud"
CategoryFromPath(p, sep) ==
    LET parts == Split(p, sep) IN
    IF parts[1] = CLOUD /\ Len(parts) > 1 THEN parts[2] ELSE <<NoneV>>

\* parts[2] of the path split at os.sep, or at "/" when that leaves one
\* part, when parts[0] is "cloud"
NamespaceFromPath(p, sep) ==
    LET parts == UriParts(p, sep) IN
    IF parts[1] = CLOUD /\ Len(parts) > 2 THEN parts[3] ELSE <<NoneV>>

\* __directory_model_from_path(path, content)
DirectoryModelFromPath(a, p, content, sep) ==
    LET category  == CategoryFromPath(p, sep)
        namespace == NamespaceFromPath(p, sep)
    IN  IF ~IsRemotePath(p, sep) /\ ~IsRemoteDir(p, sep)
        THEN [NoModel EXCEPT !.kind = "local"]
        ELSE IF p = CLOUD
        THEN IF catalog.fails = "cloud"
             THEN HttpError(500, Format(<<"Error building cloud notebook info: ", "{}">>,
                                        <<BackendMessage>>))
             ELSE IF catalog.fails = "tiledb" THEN HttpError(500, BackendMessage)
             ELSE [BaseDirectoryModel(CLOUD) EXCEPT !.content = BuildCloudNotebookLists(a)]
        ELSE IF namespace = <<NoneV>> THEN ListCategory(a, category, content)
        ELSE IF category # <<NoneV>> THEN ListNamespace(a, category, namespace, content)
        ELSE BaseDirectoryModel(p)

----------------------------------------------------------------------------
(* get and file_exists.                                                    *)

\* get(path, content, type, format): the model, a null model when get falls
\* off its end and returns None, or what it raised.
Get(a, p, content, type, format, sep) ==
    LET stripped   == Strip(p, "/")
        path_fixed == IF stripped = <<>> THEN <<".">> ELSE stripped
        fixed      == StripExt(path_fixed)
        t          == IF type # NoneV THEN type
                      ELSE IF IsRemoteDir(fixed, sep) THEN "directory"
                      ELSE GuessType(a, p, sep)
    IN  IF ~IsRemotePath(path_fixed, sep) THEN [NoModel EXCEPT !.kind = "local"]
        ELSE IF t = "notebook" THEN NotebookFromArray(a, fixed, content, sep)
        ELSE IF t = "file" THEN FileFromArray(a, fixed, content, format, sep)
        ELSE IF t = "directory" THEN DirectoryModelFromPath(a, fixed, content, sep)
        ELSE [NoModel EXCEPT !.kind = "null"]

\* file_exists(path) of a remote path
FileExists(a, p, sep) == ArrayExists(a, StripExt(Strip(p, "/")), sep)

----------------------------------------------------------------------------
(* The requests the lifecycle is checked on.                               *)

\* The retry budget _write_bytes_to_array gives _create_array.
CreateRetries == 5

NOTEBOOK_MIME == "application/x-ipynb+json"

\* The longest chain of taken names foo, foo-1, ... create is checked on.
MaxChain == 6

\* The most arrays the catalog holds before the lifecycle's first request.
MaxExisting == 1

\* The most cells of a notebook that is saved.
MaxCells == 1

\* The most requests served in a row.
MaxOps == 2

Bob == <<"bob">>

Foo == <<"foo">>

\* cloud/owned/<namespace>/<name>
LeafPath(namespace, name) == <<"cloud", "/", "owned", "/">> \o namespace \o <<"/">> \o name

\* The path save, get, delete and the old path of rename are given.
FooPath == LeafPath(Alice, Foo \o NOTEBOOK_EXT)

\* The new paths of rename: with and without the notebook suffix, and in
\* another namespace.
NewPaths ==
    { LeafPath(Alice, <<"bar">> \o NOTEBOOK_EXT), LeafPath(Alice, <<"bar">>),
      LeafPath(Bob, <<"bar">>) }

RECURSIVE CellsOf(_)
CellsOf(n) ==
    IF n = 0 THEN {<<>>}
    ELSE CellsOf(n - 1) \cup { Append(c, "c") : c \in CellsOf(n - 1) }

Notebooks == { <<f>> \o c : f \in {"lang", "nolang"}, c \in CellsOf(MaxCells) }

\* The content of a model that has no "content" key.
NoField == <<>>

\* The models save is given: notebooks, with and without mimetype and
\* format; a file, whose content is a string; a model without a type;
\* directories without content, with content None and with a notebook's dict
\* as content.
SaveModels ==
    { [type |-> "notebook", content |-> nb, mimetype |-> mf[1], format |-> mf[2]] :
        nb \in Notebooks, mf \in {<<NoneV, NoneV>>, <<NOTEBOOK_MIME, "json">>} }
    \cup { [type |-> "file", content |-> <<"str">>, mimetype |-> NoneV, format |-> "text"],
           [type |-> NoneV, content |-> <<"nolang">>, mimetype |-> NoneV, format |-> NoneV] }
    \cup { [type |-> "directory", content |-> c, mimetype |-> NoneV, format |-> NoneV] :
             c \in {NoField, <<NoneV>>, <<"nolang">>} }

\* The i-th name of the chain foo, foo-1, foo-2, ... that create walks.
RECURSIVE ChainName(_)
ChainName(i) == IF i = 0 THEN Foo ELSE IncrementFilename(ChainName(i - 1), "-")

\* A notebook array as a finished save leaves it.
SavedArray(nb) ==
    [ WriteContents(NewArray, Dumps(nb), NoneV, "json", "notebook")
        EXCEPT !.tags = {TAG_JUPYTER_NOTEBOOK} ]

\* The catalog holds the first n names of the chain, each a saved notebook.
Catalog(n) ==
    [k \in { <<Alice, ChainName(i)>> : i \in 0..(n - 1) } |->
        SavedArray(<<"lang", "a", "b">>)]

\* No save is under way and none was served.
SaveIdle ==
    /\ pc = "idle"
    /\ req = NoReq
    /\ curUri = <<>>
    /\ retry = 0
    /\ attempts = 0
    /\ collisions = 0
    /\ otherErrs = 0
    /\ made = {}
    /\ outcome = NoOutcome

\* The lifecycle: a catalog of up to MaxExisting notebooks, no request yet.
Init ==
    /\ os_sep \in Seps
    /\ LocalIdle
    /\ PathIdle
    /\ NameIdle
    /\ ListIdle
    /\ \E n \in 0..MaxExisting : arrays = Catalog(n)
    /\ SaveIdle
    /\ nops = 0

\* Create: a chain of up to MaxChain taken names, and one request to come.
InitCreate ==
    /\ os_sep \in Seps
    /\ LocalIdle
    /\ PathIdle
    /\ NameIdle
    /\ ListIdle
    /\ \E n \in 0..MaxChain : arrays = Catalog(n)
    /\ SaveIdle
    /\ nops = MaxOps - 1

----------------------------------------------------------------------------
(* save                                                                    *)

\* A request ends at once: nothing but its outcome is left.
Finish(o) ==
    /\ outcome' = o
    /\ pc' = "idle"

\* "Trying to create unsupported type: %s in cloud" % model["type"]
UnsupportedType(type) == <<"Trying to create unsupported type: ", type, " in cloud">>

\* A save that takes every model as having a type.
HasAnyType(m) == TRUE

\* "type" in model
HasType(m) == m.type # NoneV

\* save(model, path), up to the call of _write_bytes_to_array: the checks
\* of the model, the local delegate, the notebook suffix, and _is_new.
SaveBegin(p, m) ==
    LET stripped   == Strip(p, "/")
        path_fixed == IF stripped = <<>> THEN <<".">> ELSE stripped
        fixed      == StripExt(path_fixed)
        o          == [NoOutcome EXCEPT !.op = "save", !.path = p]
        quiet      == UNCHANGED <<arrays, req, curUri, retry, attempts, collisions,
                                  otherErrs, made, nops>>
    IN  /\ pc = "idle"
        /\ nops < MaxOps
        /\ IF ~HasType(m)
              THEN Finish([o EXCEPT !.kind = "http_error", !.code = 400]) /\ quiet
           ELSE IF m.type = NoneV
              \* model["type"] of a model without the key
              THEN Finish([o EXCEPT !.kind = "error"]) /\ quiet
           ELSE IF m.content = NoField /\ m.type # "directory"
              THEN Finish([o EXCEPT !.kind = "http_error", !.code = 400]) /\ quiet
           ELSE IF m.type \notin {"directory", "file", "notebook"}
              THEN Finish([o EXCEPT !.kind = "http_error", !.code = 400]) /\ quiet
           ELSE IF ~IsRemotePath(path_fixed, os_sep)
              THEN Finish([o EXCEPT !.kind = "local"]) /\ quiet
           ELSE IF m.content = NoField \/ m.content[1] \notin {"lang", "nolang"}
              \* model['content']['metadata'] of a model without content, or
              \* of a content that is no dict
              THEN Finish([o EXCEPT !.kind = "error"]) /\ quiet
           ELSE IF m.type = "directory"
              THEN Finish([o EXCEPT !.kind = "http_error", !.code = 400,
                                    !.message = UnsupportedType(m.type)]) /\ quiet
           ELSE /\ m.type = "notebook"
                /\ req' = [NoReq EXCEPT
                               !.path = p, !.fixed = fixed, !.nb = m.content,
                               !.mimetype = m.mimetype, !.format = m.format,
                               !.existed = ArrayExists(arrays, fixed, os_sep),
                               !.type = "notebook"]
                /\ curUri' = TiledbUriFromPath(fixed, os_sep)
                /\ retry' = CreateRetries
                /\ attempts' = 0
                /\ collisions' = 0
                /\ otherErrs' = 0
                /\ made' = {}
                /\ nops' = nops + 1
                /\ outcome' = o
                /\ pc' = IF HasLanguageInfo(m.content) THEN "write" ELSE "create"
                /\ UNCHANGED arrays
        /\ UNCHANGED <<os_sep, listVars, localVars, pathVars, nameVars>>

\* The error of a save that _create_array ended: an HTTPError it raised, or
\* the TypeError of unpacking the None it returned.
CreateFailed(kind, code, end) ==
    Finish([outcome EXCEPT !.kind = kind, !.code = code, !.createEnd = end])

\* One call of _create_array(uri, retry): the backend is asked once, and the
\* call returns, raises, or calls itself (the save stays at "create").
\*   no_prefix      get_s3_prefix returns None or raises an HTTPError
\*   storage_error  SparseArray.create raises a TileDBError other than
\*                  "already exists"
\*   tag_error      update_info raises a TileDBError (a TileDBCloudError is one)
\*   tag_exception  update_info raises another exception
\*   ok             the array is made and tagged
Answers == {"no_prefix", "storage_error", "tag_error", "tag_exception", "ok"}

CreateArray(answers) ==
    LET parts      == Split(curUri, "/")
        namespace  == PyIndex(parts, Len(parts) - 2)
        array_name == PyIndex(parts, Len(parts) - 1)
        key        == <<namespace, array_name>>
        untagged   == [k \in DOMAIN arrays \cup {key} |->
                          IF k = key THEN NewArray ELSE arrays[k]]
        tagged     == [untagged EXCEPT ![key].tags = {TAG_JUPYTER_NOTEBOOK}]
        \* except tiledb.TileDBError, not "already exists": elif retry
        Retry      == IF retry # 0
                      THEN /\ retry' = retry - 1
                           /\ UNCHANGED <<pc, outcome, curUri>>
                      ELSE /\ CreateFailed("error", 0, "returned_none")
                           /\ UNCHANGED <<retry, curUri>>
    IN  /\ pc = "create"
        /\ \E branch \in answers :
            IF branch = "no_prefix"
            THEN /\ CreateFailed("http_error", 400, "raised")
                 /\ UNCHANGED <<arrays, curUri, retry, attempts, collisions, otherErrs, made>>
            ELSE IF key \in DOMAIN arrays
            THEN \* "already exists": the next name, and the same retry budget
                 /\ branch = "ok"
                 /\ curUri' = Join([parts EXCEPT ![Len(parts)] =
                                       IncrementFilename(array_name, "-")], "/")
                 /\ attempts' = attempts + 1
                 /\ collisions' = collisions + 1
                 /\ UNCHANGED <<arrays, pc, outcome, retry, otherErrs, made>>
            ELSE IF branch = "storage_error"
            THEN /\ attempts' = attempts + 1
                 /\ collisions' = 0
                 /\ otherErrs' = otherErrs + 1
                 /\ Retry
                 /\ UNCHANGED <<arrays, made>>
            ELSE IF branch = "tag_error"
            THEN /\ arrays' = untagged
                 /\ made' = made \cup {key}
                 /\ attempts' = attempts + 1
                 /\ collisions' = 0
                 /\ otherErrs' = otherErrs + 1
                 /\ Retry
            ELSE IF branch = "tag_exception"
            THEN /\ arrays' = untagged
                 /\ made' = made \cup {key}
                 /\ attempts' = attempts + 1
                 /\ CreateFailed("http_error", 400, "raised")
                 /\ UNCHANGED <<curUri, retry, collisions, otherErrs>>
            ELSE /\ arrays' = tagged
                 /\ made' = made \cup {key}
                 /\ attempts' = attempts + 1
                 /\ curUri' = TiledbUri(namespace, array_name)
                 /\ outcome' = [outcome EXCEPT !.createEnd = "returned"]
                 /\ pc' = "write"
                 /\ UNCHANGED <<retry, collisions, otherErrs>>
        /\ UNCHANGED <<os_sep, listVars, localVars, pathVars, nameVars, req, nops>>

\* A save that answers with the path it was given.
FinalPathKept(p, final_name) == p

\* parts[parts_length - 1] = final_name; path = "/".join(parts)
FinalPath(p, final_name) ==
    LET parts == Split(p, "/") IN
    Join([parts EXCEPT ![Len(parts)] = final_name], "/")

\* The rest of _write_bytes_to_array and of save: the array at the uri is
\* opened and written, the final name (when create returned one) replaces
\* the last part of the path, and get builds the model save returns.
WriteArray ==
    LET key        == KeyOfUri(curUri)
        bytes      == Dumps(req.nb)
        final_name == Split(curUri, "/")[Len(Split(curUri, "/"))]
        newPath    == IF outcome.createEnd = "returned"
                      THEN FinalPath(req.path, final_name)
                      ELSE req.path
        written    == [arrays EXCEPT ![key] =
                          WriteContents(@, bytes, req.mimetype, req.format, "notebook")]
    IN  /\ pc = "write"
        /\ IF key \notin DOMAIN arrays
           THEN \* tiledb.open raises a TileDBError, which save raises again
                /\ Finish([outcome EXCEPT !.kind = "error"])
                /\ UNCHANGED arrays
           ELSE /\ arrays' = written
                /\ Finish([outcome EXCEPT
                              !.kind = "ok", !.key = key, !.bytes = bytes,
                              !.model = Get(written, newPath, FALSE, "notebook",
                                            NoneV, os_sep)])
        /\ UNCHANGED <<os_sep, listVars, localVars, pathVars, nameVars, req, curUri, retry, attempts,
                       collisions, otherErrs, made, nops>>

----------------------------------------------------------------------------
(* rename_file, delete_file, get and file_exists of a remote path          *)

\* tiledb.cloud.notebook.rename_notebook(uri, notebook_name): the array is
\* registered under the new name in the same namespace.
RenameNotebook(a, key, newName) ==
    LET newKey == <<key[1], newName>> IN
    [k \in (DOMAIN a \ {key}) \cup {newKey} |-> IF k = newKey THEN a[key] ELSE a[k]]

\* A catalog that answers a deregister call and keeps the array.
DeregisterNothing(a, key) == a

\* tiledb.cloud.array.deregister_array(uri)
DeregisterArray(a, key) == [k \in DOMAIN a \ {key} |-> a[k]]

\* rename_file(old_path, new_path): the catalog renames the array at the old
\* path to the last part of the new path, or fails and the error is raised as
\* a 500: it refuses with a TileDBCloudError (no such array, the name is
\* taken), or the call fails as the caller says (Failures).
RenameFile(old, new, fails) ==
    LET fixed     == StripExt(Strip(old, "/"))
        uri       == TiledbUriFromPath(fixed, os_sep)
        key       == KeyOfUri(uri)
        parts_new == Split(new, "/")
        name_new  == parts_new[Len(parts_new)]
        o         == [NoOutcome EXCEPT !.op = "rename", !.path = new, !.old = old]
        refused   == key \notin DOMAIN arrays \/ <<key[1], name_new>> \in DOMAIN arrays
        message   == IF fails = "tiledb" THEN BackendMessage
                     ELSE Format(<<"Error renaming ", "{}", ": ">>, <<uri, BackendMessage>>)
    IN  /\ pc = "idle"
        /\ nops < MaxOps
        /\ IsRemotePath(Strip(old, "/"), os_sep)
        /\ nops' = nops + 1
        /\ IF fails # "none" \/ refused
           THEN /\ Finish([o EXCEPT !.kind = "http_error", !.code = 500,
                                    !.message = message])
                /\ UNCHANGED arrays
           ELSE /\ arrays' = RenameNotebook(arrays, key, name_new)
                /\ Finish([o EXCEPT !.kind = "ok", !.key = key,
                                    !.model = Get(arrays, old, TRUE, NoneV, NoneV, os_sep)])
        /\ UNCHANGED <<os_sep, listVars, localVars, pathVars, nameVars, req, curUri, retry, attempts,
                       collisions, otherErrs, made>>

\* delete_file(path): the catalog deregisters the array, or fails.
DeleteFile(p, fails) ==
    LET fixed   == StripExt(Strip(p, "/"))
        uri     == TiledbUriFromPath(fixed, os_sep)
        key     == KeyOfUri(uri)
        o       == [NoOutcome EXCEPT !.op = "delete", !.path = p]
        message == IF fails = "tiledb" THEN BackendMessage
                   ELSE Format(<<"Error deregistering ", "{}", ": ">>,
                               <<uri, BackendMessage>>)
    IN  /\ pc = "idle"
        /\ nops < MaxOps
        /\ IsRemotePath(Strip(p, "/"), os_sep)
        /\ nops' = nops + 1
        /\ IF fails # "none" \/ key \notin DOMAIN arrays
           THEN /\ Finish([o EXCEPT !.kind = "http_error", !.code = 500,
                                    !.message = message])
                /\ UNCHANGED arrays
           ELSE /\ arrays' = DeregisterArray(arrays, key)
                /\ Finish([o EXCEPT !.kind = "ok", !.key = key])
        /\ UNCHANGED <<os_sep, listVars, localVars, pathVars, nameVars, req, curUri, retry, attempts,
                       collisions, otherErrs, made>>

\* get(path) with its content and no type given
GetFile(p) ==
    LET m == Get(arrays, p, TRUE, NoneV, NoneV, os_sep) IN
    /\ pc = "idle"
    /\ nops < MaxOps
    /\ nops' = nops + 1
    /\ Finish([NoOutcome EXCEPT
                  !.op = "get", !.path = p, !.model = m, !.code = m.code,
                  !.message = m.message, !.content = TRUE,
                  !.kind = IF m.kind \in {"http_error", "error"} THEN m.kind ELSE "ok"])
    /\ UNCHANGED <<os_sep, listVars, localVars, pathVars, nameVars, arrays, req, curUri, retry, attempts,
                   collisions, otherErrs, made>>

\* file_exists(path)
CallFileExists(p) ==
    /\ pc = "idle"
    /\ nops < MaxOps
    /\ nops' = nops + 1
    /\ Finish([NoOutcome EXCEPT !.op = "file_exists", !.path = p, !.kind = "ok",
                                !.exists = FileExists(arrays, p, os_sep)])
    /\ UNCHANGED <<os_sep, listVars, localVars, pathVars, nameVars, arrays, req, curUri, retry, attempts,
                   collisions, otherErrs, made>>

\* The lifecycle on a backend that answers every create: a name is taken or
\* the array is made.
Next ==
    \/ \E m \in SaveModels : SaveBegin(FooPath, m)
    \/ CreateArray({"ok"})
    \/ WriteArray
    \/ \E new \in NewPaths, fails \in Failures : RenameFile(FooPath, new, fails)
    \/ \E fails \in Failures : DeleteFile(FooPath, fails)
    \/ \E p \in {FooPath} \cup NewPaths : GetFile(p)
    \/ \E p \in {FooPath} \cup NewPaths : CallFileExists(p)

Spec == Init /\ [][Next]_vars

\* One save on a backend whose create and tagging may fail.
NextCreate ==
    \/ \E m \in SaveModels : SaveBegin(FooPath, m)
    \/ CreateArray(Answers)
    \/ WriteArray

SpecCreate == InitCreate /\ [][NextCreate]_vars

----------------------------------------------------------------------------
(* The array lifecycle, claim by claim.                                    *)

\* A save that has just ended well: its outcome is the last thing that happened.
SaveEndedOk == pc = "idle" /\ outcome.op = "save" /\ outcome.kind = "ok"

\* C1: a create that has met CreateRetries "already exists" answers in a row
\* has stopped and failed with a user-facing error; it never asks the backend
\* again after the fifth, so it never meets more than five in a row.
C1_CollisionRetriesBounded ==
    /\ collisions <= CreateRetries
    /\ collisions = CreateRetries => pc = "idle" /\ outcome.kind = "http_error"

\* C2: a save to a leaf whose array exists already makes no array and writes
\* the array of the path; a save to a leaf without one makes exactly one.
C2_ArrayCreatedOncePerLeaf ==
    SaveEndedOk =>
        IF req.existed
        THEN /\ made = {}
             /\ outcome.key = KeyOfUri(TiledbUriFromPath(req.fixed, os_sep))
        ELSE Cardinality(made) = 1

\* A rename that has just ended well, its new path in the namespace of the old.
RenameEndedOk ==
    /\ pc = "idle"
    /\ outcome.op = "rename"
    /\ outcome.kind = "ok"
    /\ NamespaceOf(outcome.path, os_sep) = NamespaceOf(outcome.old, os_sep)

\* C3: after a rename that succeeded, the old path is not found and a read at
\* the new path returns the content a read at the old path returned before.
C3_RenameKeepsContentAtNewPath ==
    RenameEndedOk =>
        LET after == Get(arrays, outcome.path, TRUE, NoneV, NoneV, os_sep) IN
        /\ ~FileExists(arrays, outcome.old, os_sep)
        /\ after.kind = "model"
        /\ after.type = outcome.model.type
        /\ after.content = outcome.model.content

\* C4: once a write of the bytes B has ended, a read of the array that was
\* written returns exactly B and its file_size is len(B), also when the array
\* held a longer content before.
C4_WriteThenReadRoundTrip ==
    SaveEndedOk =>
        /\ outcome.key \in DOMAIN arrays
        /\ ReadContents(arrays[outcome.key]) = outcome.bytes
        /\ arrays[outcome.key].meta["file_size"] = Len(outcome.bytes)

\* A shorter content was written over a longer one: cells of the old content
\* lie beyond the new file_size.
C4_Witness ==
    /\ SaveEndedOk
    /\ outcome.key \in DOMAIN arrays
    /\ \E i \in DOMAIN arrays[outcome.key].cells : i >= Len(outcome.bytes)
    /\ ReadContents(arrays[outcome.key]) = outcome.bytes

\* C6: once create has ended, by returning or by raising, every array it
\* made carries the tag.
C6_CreatedArraysAreTagged ==
    pc # "create" =>
        \A k \in made : k \in DOMAIN arrays /\ TAG_JUPYTER_NOTEBOOK \in arrays[k].tags

\* C7: a create that has met an error other than "already exists" has ended
\* with a user-facing error: it does not ask the backend again, and it never
\* returns without an array.
C7_OtherErrorsSurfaceAtOnce ==
    /\ otherErrs > 0 => pc = "idle" /\ outcome.kind = "http_error"
    /\ outcome.createEnd # "returned_none"

----------------------------------------------------------------------------
(* resolve of a path that is too short.                                    *)

\* What resolve would return had it failed with InvalidPathError.
InvalidPathError == <<"InvalidPathError">>

\* C11: resolve fails with InvalidPathError for every path that has fewer
\* than two segments; it never returns a backend URI for such a path.
C11_ResolveRejectsShortPaths ==
    (uri1 # Unset /\ ~HasTwoSegments(path, os_sep)) => uri1 = InvalidPathError

----------------------------------------------------------------------------
(* Listings: get of the remote directories, on a catalog that holds        *)
(* records of all three categories and may fail.                           *)

\* The most records the catalog holds.
MaxRecords == 2

\* A record of the catalog: an array's category, namespace, name and the
\* actions the user is allowed on it.
Record(category, namespace, name, actions) ==
    [category |-> category, namespace |-> namespace, name |-> name, actions |-> actions]

OrgA == <<"orgA">>

OrgB == <<"orgB">>

Carol == <<"carol">>

RecordPool ==
    { Record(Owned, Alice, <<"foo">>, {"read", "write"}),
      Record(Owned, Alice, <<"bar">>, {"read"}),
      Record(Owned, OrgA, <<"foo">>, {"read", "write"}),
      Record(Shared, <<"bob">>, <<"baz">>, {"read"}),
      Record(Shared, <<"bob">>, <<"qux">>, {"read", "write"}),
      Record(Public, Carol, <<"pub">>, {"read"}) }

\* The lists of up to n different records, in every order.
RECURSIVE RecordLists(_)
RecordLists(n) ==
    IF n = 0 THEN {<<>>}
    ELSE LET shorter == RecordLists(n - 1) IN
         shorter \cup
             { Append(pr[1], pr[2]) :
                 pr \in { x \in shorter \X RecordPool :
                             \A i \in 1..Len(x[1]) : x[1][i] # x[2] } }

Profiles ==
    { [username |-> Alice, organizations |-> orgs] :
        orgs \in {<<>>, <<OrgA, OrgB>>, <<OrgA, Public>>} }

\* cloud, cloud/<category>, cloud/<category>/<namespace>
DirPath(segments) == Join(<<CLOUD>> \o segments, "/")

ListPaths ==
    { DirPath(<<>>), DirPath(<<Owned>>), DirPath(<<Shared>>), DirPath(<<Public>>),
      DirPath(<<Owned, Alice>>), DirPath(<<Owned, OrgA>>), DirPath(<<Shared, <<"bob">>>>),
      DirPath(<<Public, Carol>>) }

InitList ==
    /\ os_sep \in Seps
    /\ LocalIdle
    /\ PathIdle
    /\ NameIdle
    /\ catalog \in [records : RecordLists(MaxRecords), fails : Failures]
    /\ profile \in Profiles
    /\ arrays = <<>>
    /\ SaveIdle
    /\ nops = MaxOps - 1

\* get(path, content) of a remote directory, no type given
GetListing(p, content) ==
    LET m == Get(arrays, p, content, NoneV, NoneV, os_sep) IN
    /\ pc = "idle"
    /\ nops < MaxOps
    /\ nops' = nops + 1
    /\ Finish([NoOutcome EXCEPT
                  !.op = "get", !.path = p, !.model = m, !.code = m.code,
                  !.message = m.message, !.content = content,
                  !.kind = IF m.kind \in {"http_error", "error"} THEN m.kind ELSE "ok"])
    /\ UNCHANGED <<os_sep, listVars, localVars, pathVars, nameVars, arrays, req, curUri, retry,
                   attempts, collisions, otherErrs, made>>

NextList == \E p \in ListPaths, content \in BOOLEAN : GetListing(p, content)

SpecList == InitList /\ [][NextList]_vars

----------------------------------------------------------------------------
(* The listings, claim by claim.                                           *)

\* A get of the directory at the segments below cloud has just returned a
\* model, its content asked for.
Listed(segments) ==
    /\ outcome.op = "get"
    /\ outcome.kind = "ok"
    /\ outcome.content
    /\ outcome.path = DirPath(segments)

\* The records the catalog holds of a category, and of a namespace in it.
RecordsIn(category) == SelectSeq(catalog.records, LAMBDA r : r.category = category)

RecordsOfNamespace(category, namespace) ==
    SelectSeq(RecordsIn(category), LAMBDA r : r.namespace = namespace)

\* The namespaces among the records of a category.
NamespacesIn(category) ==
    { RecordsIn(category)[i].namespace : i \in 1..Len(RecordsIn(category)) }

\* m is the synthetic node of the namespace in the category.
IsNamespaceNode(m, category, namespace) ==
    /\ m.kind = "model"
    /\ m.type = "directory"
    /\ m.name = namespace
    /\ m.path = DirPath(<<category, namespace>>)

\* The content of a directory model as a list: no content is no entry.
Entries(m) == IF m.content = NoContent THEN <<>> ELSE m.content

OwnNamespaces ==
    LET orgs == profile.organizations
        kept == { i \in 1..Len(orgs) : orgs[i] # Public }
    IN  <<profile.username>>
            \o [j \in 1..Cardinality(kept) |->
                   orgs[CHOOSE i \in kept : Cardinality({ k \in kept : k <= i }) = j]]

C13_CategoryListsRecordNamespaces ==
    \A c \in Categories :
        (Listed(<<c>>) /\ RecordsIn(c) # <<>>) =>
            LET content == outcome.model.content IN
            /\ Len(content) = Cardinality(NamespacesIn(c))
            /\ \A i \in 1..Len(content) :
                   /\ content[i].name \in NamespacesIn(c)
                   /\ IsNamespaceNode(content[i], c, content[i].name)
            /\ \A ns \in NamespacesIn(c) : \E i \in 1..Len(content) : content[i].name = ns

\* C14: the listing of the root is three children, one per category, and
\* the content of each is one namespace node per distinct namespace among
\* the records of the category.
C14_RootListsNamespacesPerCategory ==
    (outcome.op = "get" /\ outcome.kind = "ok" /\ outcome.path = CLOUD) =>
        LET children == outcome.model.content IN
        /\ Len(children) = 3
        /\ { children[i].name : i \in 1..3 } = Categories
        /\ \A i \in 1..3 :
               LET c     == children[i].name
                   nodes == Entries(children[i])
               IN  /\ Len(nodes) = Cardinality(NamespacesIn(c))
                   /\ \A j \in 1..Len(nodes) :
                          /\ nodes[j].name \in NamespacesIn(c)
                          /\ IsNamespaceNode(nodes[j], c, nodes[j].name)

Namespaces == {Alice, OrgA, <<"bob">>, Carol}

\* The listing of the namespace in the category has just returned its leaves.
ListedLeaves(c, ns) == Listed(<<c, ns>>) /\ outcome.model.content # NoContent

\* C15: in a namespace listing, each leaf is writable iff "write" is among
\* the allowed actions of its record.
C15_LeafWritableIffWriteAllowed ==
    \A c \in Categories, ns \in Namespaces :
        ListedLeaves(c, ns) =>
            LET leaves  == outcome.model.content
                records == RecordsOfNamespace(c, ns)
            IN  \A i \in 1..Len(leaves) :
                    i <= Len(records) =>
                        (leaves[i].writable <=> "write" \in records[i].actions)

\* C16: a namespace listing with its content asked for is exactly one leaf
\* per record of the catalog, in the catalog's order, the path of each
\* cloud/<category>/<namespace>/<name>.ipynb.
C16_NamespaceListsOneLeafPerRecord ==
    \A c \in Categories, ns \in Namespaces :
        Listed(<<c, ns>>) =>
            LET leaves  == Entries(outcome.model)
                records == RecordsOfNamespace(c, ns)
            IN  /\ outcome.model.content # NoContent
                /\ Len(leaves) = Len(records)
                /\ \A i \in 1..Len(leaves) :
                       /\ leaves[i].type = "notebook"
                       /\ leaves[i].path =
                              DirPath(<<c, ns, records[i].name \o NOTEBOOK_EXT>>)

\* The message holds the message of the backend's error.
CarriesBackendMessage(message) ==
    \E i \in 1..Len(message) : <<message[i]>> = BackendMessage

\* C17: a namespace listing, a delete or a rename that a failing catalog
\* call ended raised a user-facing error whose message holds the backend's.
C17_CatalogErrorKeepsMessage ==
    ( /\ outcome.kind = "http_error"
      /\ \/ outcome.op \in {"delete", "rename"}
         \/ /\ outcome.op = "get"
            /\ \E c \in Categories, ns \in Namespaces : outcome.path = DirPath(<<c, ns>>) ) =>
        CarriesBackendMessage(outcome.message)

----------------------------------------------------------------------------
(* save and write, claim by claim.                                         *)

\* C18: a save of a model that has no type fails with a 400 user-facing
\* error, makes no backend call before it fails and leaves the backend as
\* it was.
C18_NoTypeSaveFailsBeforeBackend ==
    [][ \A m \in SaveModels :
            (m.type = NoneV /\ SaveBegin(FooPath, m)) =>
                /\ arrays' = arrays
                /\ pc' = "idle"
                /\ outcome'.kind = "http_error"
                /\ outcome'.code = 400
                /\ attempts' = attempts
                /\ made' = made ]_vars

\* A save without a type was refused while the backend holds an array.
C18_Witness ==
    /\ pc = "idle"
    /\ outcome.op = "save"
    /\ outcome.kind = "http_error"
    /\ outcome.code = 400
    /\ outcome.createEnd = "none"
    /\ DOMAIN arrays # {}

\* C20: a write sets file_size, sets each of mimetype, format and type that
\* is given a value, and leaves a key that is given none as it was: absent
\* if it was absent, its previous value otherwise.
C20_WriteMergesMetadata ==
    [][ (pc = "write" /\ pc' = "idle" /\ outcome'.kind = "ok") =>
            LET k     == outcome'.key
                old   == arrays[k].meta
                new   == arrays'[k].meta
                given == [mimetype |-> req.mimetype, format |-> req.format,
                          type |-> "notebook"]
            IN  /\ new["file_size"] = Len(outcome'.bytes)
                /\ \A f \in DOMAIN given :
                       IF given[f] # NoneV
                       THEN f \in DOMAIN new /\ new[f] = given[f]
                       ELSE /\ f \in DOMAIN new <=> f \in DOMAIN old
                            /\ f \in DOMAIN old => new[f] = old[f] ]_vars

\* A write without a mimetype has ended on an array whose mimetype an
\* earlier write had set.
C20_Witness ==
    /\ SaveEndedOk
    /\ req.mimetype = NoneV
    /\ outcome.key \in DOMAIN arrays
    /\ "mimetype" \in DOMAIN arrays[outcome.key].meta
    /\ arrays[outcome.key].meta["mimetype"] = NOTEBOOK_MIME

----------------------------------------------------------------------------
(* Reads: get of a leaf with and without a type, on arrays that were       *)
(* written, and on arrays that were created and never written.             *)

\* A file array as _save_file_tiledb's write leaves it.
FileArray ==
    [ WriteContents(NewArray, <<"a", "b">>, NoneV, "text", "file")
        EXCEPT !.tags = {TAG_JUPYTER_NOTEBOOK} ]

\* The arrays a leaf may have: created and never written (tagged or not), a
\* saved notebook, a written file.
ReadArrays ==
    { NewArray, [NewArray EXCEPT !.tags = {TAG_JUPYTER_NOTEBOOK}], FileArray }
        \cup { SavedArray(nb) : nb \in Notebooks }

InitRead ==
    /\ os_sep \in Seps
    /\ LocalIdle
    /\ PathIdle
    /\ NameIdle
    /\ ListIdle
    /\ \/ arrays = <<>>
       \/ \E A \in ReadArrays : arrays = [k \in {<<Alice, Foo>>} |-> A]
    /\ SaveIdle
    /\ nops = MaxOps - 1

\* get(path, content, type, format)
GetAs(p, content, type, format) ==
    LET m == Get(arrays, p, content, type, format, os_sep) IN
    /\ pc = "idle"
    /\ nops < MaxOps
    /\ nops' = nops + 1
    /\ Finish([NoOutcome EXCEPT
                  !.op = "get", !.path = p, !.model = m, !.code = m.code,
                  !.message = m.message, !.content = content, !.type = type,
                  !.kind = IF m.kind \in {"http_error", "error"} THEN m.kind ELSE "ok"])
    /\ UNCHANGED <<os_sep, listVars, localVars, pathVars, nameVars, arrays, req, curUri, retry,
                   attempts, collisions, otherErrs, made>>

\* The remote paths guess_type is given: a leaf with and without the
\* notebook suffix, a category and a namespace.
GuessPaths ==
    { FooPath, LeafPath(Alice, Foo), <<"cloud", "/", "owned">>,
      <<"cloud", "/", "owned", "/">> \o Alice }

\* guess_type(path)
CallGuessType(p) ==
    /\ pc = "idle"
    /\ nops < MaxOps
    /\ nops' = nops + 1
    /\ Finish([NoOutcome EXCEPT !.op = "guess_type", !.path = p, !.kind = "ok",
                                !.guessed = GuessType(arrays, p, os_sep)])
    /\ UNCHANGED <<os_sep, listVars, localVars, pathVars, nameVars, arrays, req, curUri, retry,
                   attempts, collisions, otherErrs, made>>

NextRead ==
    \/ \E p \in {FooPath, LeafPath(Alice, Foo)}, content \in BOOLEAN,
          type \in {NoneV, "notebook", "file", "directory"}, format \in {NoneV, "text"} :
           GetAs(p, content, type, format)
    \/ \E p \in GuessPaths : CallGuessType(p)

SpecRead == InitRead /\ [][NextRead]_vars

\* The array of the leaf at the path exists and has no file_size.
NeverWritten(p) ==
    LET key == KeyOfUri(TiledbUriFromPath(StripExt(Strip(p, "/")), os_sep)) IN
    key \in DOMAIN arrays /\ "file_size" \notin DOMAIN arrays[key].meta

C21_GuessTypeClassifies ==
    outcome.op = "guess_type" =>
        LET fixed == Strip(outcome.path, "/")
            key   == KeyOfUri(TiledbUriFromPath(StripExt(fixed), os_sep))
        IN  /\ outcome.guessed \in {"notebook", "file", "directory"}
            /\ IF IsRemoteDir(fixed, os_sep) THEN outcome.guessed = "directory"
               ELSE IF key \notin DOMAIN arrays THEN outcome.guessed = "directory"
               ELSE IF "type" \in DOMAIN arrays[key].meta
                    THEN outcome.guessed = arrays[key].meta["type"]
               ELSE EndsWith(fixed, NOTEBOOK_EXT) => outcome.guessed = "notebook"


\* C22: a delete that succeeds takes the array at the uri of the path, its
\* trailing .ipynb stripped, out of the catalog in one call and does nothing
\* else: every other array keeps its cells, metadata and tags, and
\* file_exists of the path is false afterwards.
C22_DeleteOnlyDeregisters ==
    [][ ((\E fails \in Failures : DeleteFile(FooPath, fails)) /\ outcome'.kind = "ok") =>
            LET key == KeyOfUri(TiledbUriFromPath(StripExt(Strip(FooPath, "/")), os_sep))
            IN  /\ key \in DOMAIN arrays
                /\ outcome'.key = key
                /\ DOMAIN arrays' = DOMAIN arrays \ {key}
                /\ \A k \in DOMAIN arrays' : arrays'[k] = arrays[k]
                /\ ~FileExists(arrays', FooPath, os_sep) ]_vars

\* A delete succeeded and the leaf is gone.
C22_Witness ==
    /\ outcome.op = "delete"
    /\ outcome.kind = "ok"
    /\ outcome.key = <<Alice, Foo>>
    /\ outcome.key \notin DOMAIN arrays
    /\ ~FileExists(arrays, outcome.path, os_sep)

----------------------------------------------------------------------------
(* A write interleaved with reads of the same leaf.  The body of           *)
(* _write_bytes_to_array's "with" writes the cells (line 308) and then the *)
(* metadata (lines 309-315); a reader may open the array before, between   *)
(* and after the two.                                                      *)

\* The contents of files: bytes as they are.
FileContents == { <<"a">>, <<"a", "b">>, <<"c", "d", "e">> }

\* The array a write of the bytes as a file leaves.
FileArrayOf(bytes) ==
    [ WriteContents(NewArray, bytes, NoneV, "text", "file")
        EXCEPT !.tags = {TAG_JUPYTER_NOTEBOOK} ]

\* The leaf before the write: never written, a saved notebook, or a file; and
\* the write under way, of a notebook or of a file.
InitRace ==
    /\ os_sep \in Seps
    /\ LocalIdle
    /\ PathIdle
    /\ NameIdle
    /\ ListIdle
    /\ \E old \in {<<>>} \cup Notebooks \cup FileContents,
          new \in Notebooks \cup FileContents :
            LET type == IF new \in Notebooks THEN "notebook" ELSE "file" IN
            /\ old # <<>> => (old \in Notebooks <=> new \in Notebooks)
            /\ arrays = [k \in {<<Alice, Foo>>} |->
                            IF old = <<>> THEN [NewArray EXCEPT !.tags = {TAG_JUPYTER_NOTEBOOK}]
                            ELSE IF old \in Notebooks THEN SavedArray(old)
                            ELSE FileArrayOf(old)]
            /\ req = [NoReq EXCEPT
                         !.path = FooPath, !.fixed = StripExt(FooPath), !.nb = new,
                         !.format = IF type = "file" THEN "text" ELSE "json",
                         !.existed = TRUE, !.type = type, !.prev = old]
    /\ curUri = TiledbUriFromPath(StripExt(FooPath), os_sep)
    /\ pc = "cells"
    /\ retry = 0
    /\ attempts = 0
    /\ collisions = 0
    /\ otherErrs = 0
    /\ made = {}
    /\ outcome = NoOutcome
    /\ nops = 0

\* The bytes the write writes: json.dumps of a notebook, a file's as they are.
BytesOf(r) == IF r.type = "notebook" THEN Dumps(r.nb) ELSE r.nb

\* line 308: the cells are written
WriteCellsStep ==
    /\ pc = "cells"
    /\ arrays' = [arrays EXCEPT ![KeyOfUri(curUri)] = WriteCells(@, BytesOf(req))]
    /\ pc' = "meta"
    /\ UNCHANGED <<os_sep, listVars, localVars, pathVars, nameVars, req, curUri, retry, attempts,
                   collisions, otherErrs, made, outcome, nops>>

\* lines 309-315: the metadata is written
WriteMetaStep ==
    /\ pc = "meta"
    /\ arrays' = [arrays EXCEPT ![KeyOfUri(curUri)] =
                     WriteMeta(@, Len(BytesOf(req)), req.mimetype, req.format, req.type)]
    /\ pc' = "idle"
    /\ UNCHANGED <<os_sep, listVars, localVars, pathVars, nameVars, req, curUri, retry, attempts,
                   collisions, otherErrs, made, outcome, nops>>

\* get(path, content=True, type) of the leaf, by another request
ReadLeaf ==
    LET m == Get(arrays, req.path, TRUE, req.type, NoneV, os_sep) IN
    /\ nops < MaxOps
    /\ nops' = nops + 1
    /\ outcome' = [NoOutcome EXCEPT
                      !.op = "get", !.path = req.path, !.model = m, !.code = m.code,
                      !.message = m.message, !.content = TRUE, !.type = req.type,
                      !.kind = IF m.kind \in {"http_error", "error"} THEN m.kind ELSE "ok"]
    /\ UNCHANGED <<os_sep, listVars, localVars, pathVars, nameVars, arrays, saveVars>>

NextRace ==
    \/ WriteCellsStep
    \/ WriteMetaStep
    \/ ReadLeaf

SpecRace == InitRace /\ [][NextRace]_vars

\* C23: a read interleaved with a write of the leaf returns empty content,
\* the whole version the leaf held before the write, or the whole new
\* version.
C23_ReaderSeesWholeVersion ==
    outcome.op = "get" =>
        /\ outcome.kind = "ok"
        /\ outcome.model.content \in {<<>>, req.prev, req.nb}


\* C24: a save of a new notebook that met a taken name writes the content to
\* the array it created under the next free name and returns a model whose
\* name and path carry that name; no array that was there before is touched,
\* by the creation or by the write.
C24_CollisionWritesRenamedArray ==
    [][ /\ pc = "create" => \A k \in DOMAIN arrays : k \in DOMAIN arrays' /\ arrays'[k] = arrays[k]
        /\ (pc = "write" /\ pc' = "idle" /\ outcome'.kind = "ok" /\ collisions > 0) =>
               LET key        == outcome'.key
                   final_name == key[2]
                   parts      == Split(req.path, "/")
               IN  /\ key \in made
                   /\ key # KeyOfUri(TiledbUriFromPath(req.fixed, os_sep))
                   /\ ReadContents(arrays'[key]) = Dumps(req.nb)
                   /\ outcome'.model.name = final_name
                   /\ outcome'.model.path =
                          Join(SubSeq(parts, 1, Len(parts) - 1), "/") \o <<"/">> \o final_name
                   /\ \A k \in DOMAIN arrays \ {key} : arrays'[k] = arrays[k] ]_vars

\* A save met the taken name foo and wrote the array it made instead.
C24_Witness ==
    /\ SaveEndedOk
    /\ collisions > 0
    /\ outcome.createEnd = "returned"
    /\ outcome.key # <<Alice, Foo>>
    /\ <<Alice, Foo>> \in DOMAIN arrays
    /\ outcome.model.name = outcome.key[2]


\* The base name without its trailing "-<digits>", when it has one.
Stem(b) ==
    IF HasNumericSuffix(b) THEN SubSeq(b, 1, LastPlace(b, "-", Len(b)) - 1) ELSE b

\* C25: the derived name keeps the whole base name, apart from a trailing
\* "-<digits>", and the extension: it is the stem, the separator, a number
\* and the extension, so a base name such as run-2-old or my-notebook loses
\* none of its characters.
C25_RenameKeepsBaseName ==
    incrs > 0 =>
        LET cut  == NameCut(prevName)
            stem == Stem(cut[1])
            ext  == cut[2] \o cut[3]
            n    == Len(fname) - Len(stem) - Len(ext)
        IN  /\ n >= 2
            /\ SubSeq(fname, 1, Len(stem) + 1) = stem \o <<"-">>
            /\ IsDigit(SubSeq(fname, Len(stem) + 2, Len(stem) + n))
            /\ SubSeq(fname, Len(stem) + n + 1, Len(fname)) = ext


\* C26: a get of a remote leaf with no type given returns a file or notebook
\* model of the leaf or raises an HTTPError; it returns neither nothing nor a
\* directory model.
C26_UntypedGetOfLeafReturnsLeaf ==
    (outcome.op = "get" /\ outcome.type = NoneV) =>
        \/ outcome.kind = "http_error"
        \/ /\ outcome.kind = "ok"
           /\ outcome.model.kind = "model"
           /\ outcome.model.type \in {"file", "notebook"}


\* C27: a save of a model of type directory or file to a remote path ends
\* in an HTTPError or goes on to write; for type directory it raises the 400
\* "Trying to create unsupported type" and leaves the backend alone.
C27_DirectoryAndFileSavesEndInHttpError ==
    [][ \A m \in SaveModels :
            (m.type \in {"directory", "file"} /\ SaveBegin(FooPath, m)) =>
                /\ outcome'.kind = "http_error" \/ pc' # "idle"
                /\ m.type = "directory" =>
                       /\ outcome'.kind = "http_error"
                       /\ outcome'.code = 400
                       /\ outcome'.message = UnsupportedType("directory")
                       /\ arrays' = arrays /\ attempts' = attempts /\ made' = made ]_vars

----------------------------------------------------------------------------
(* rename_file and delete_file of a local path: the manager hands the      *)
(* request to the local file-backed manager it inherits from.  frames is   *)
(* the stack of calls: "rename_file" and "delete_file" are the manager's   *)
(* own methods, "rename" is the public rename it inherits, which renames   *)
(* the file with self.rename_file, and "local_rename_file" and             *)
(* "local_delete_file" are the file operations of the local manager.       *)

\* The frames a request may stack before Python raises RecursionError.
MaxDepth == 6

\* The methods TileDBCloudContentsManager defines itself.
Overridden == {"rename_file", "delete_file"}

\* self.method(...): the manager's own method when it defines one.
SelfCall(method) ==
    IF method \in Overridden THEN method
    ELSE IF method = "rename_file" THEN "local_rename_file" ELSE "local_delete_file"

\* What the manager calls for a local path: delete_file calls
\* super().delete_file, rename_file calls super().rename.
SuperCallOf(method) == IF method = "rename_file" THEN "rename" ELSE "local_delete_file"

LocalPaths == { <<"x">>, <<"x", "/", "foo", ".", "ipynb">> }

Top == frames[Len(frames)]

\* A call is made: a frame more, or RecursionError when the stack is full,
\* which ends the request.
Push(frame) ==
    IF Len(frames) >= MaxDepth
    THEN /\ frames' = <<>>
         /\ outcome' = [outcome EXCEPT !.kind = "error"]
    ELSE /\ frames' = Append(frames, frame)
         /\ UNCHANGED outcome

\* rename_file(old_path, new_path) or delete_file(path) is called with a
\* local path.
CallLocal(op, old, new) ==
    /\ frames = <<>>
    /\ nops < MaxOps
    /\ ~IsRemotePath(Strip(old, "/"), os_sep)
    /\ frames' = <<op>>
    /\ call' = [op |-> op, old |-> old, new |-> new]
    /\ localOps' = 0
    /\ nops' = nops + 1
    /\ outcome' = [NoOutcome EXCEPT !.op = op, !.path = new, !.old = old]
    /\ UNCHANGED <<os_sep, listVars, pathVars, nameVars, arrays, saveVars>>

\* The else branch of rename_file (line 1049) and of delete_file (line 1023)
CallSuper ==
    /\ frames # <<>>
    /\ Top \in Overridden
    /\ Push(SuperCallOf(Top))
    /\ UNCHANGED <<os_sep, listVars, pathVars, nameVars, arrays, saveVars, nops,
                   call, localOps>>

\* The inherited rename: self.rename_file(old_path, new_path)
InheritedRename ==
    /\ frames # <<>>
    /\ Top = "rename"
    /\ Push(SelfCall("rename_file"))
    /\ UNCHANGED <<os_sep, listVars, pathVars, nameVars, arrays, saveVars, nops,
                   call, localOps>>

\* The local manager's file operation is done, and every caller returns.
LocalFileOp ==
    /\ frames # <<>>
    /\ Top \in {"local_rename_file", "local_delete_file"}
    /\ localOps' = localOps + 1
    /\ frames' = <<>>
    /\ outcome' = [outcome EXCEPT !.kind = "ok"]
    /\ UNCHANGED <<os_sep, listVars, pathVars, nameVars, arrays, saveVars, nops, call>>

NextLocal ==
    \/ \E old \in LocalPaths, new \in LocalPaths : CallLocal("rename_file", old, new)
    \/ \E old \in LocalPaths : CallLocal("delete_file", old, <<>>)
    \/ CallSuper
    \/ InheritedRename
    \/ LocalFileOp

SpecLocal == Init /\ [][NextLocal]_vars

\* C28: a rename_file of a local path is not entered again for the same
\* request, and it ends with the local manager's rename done once.
C28_LocalRenameDelegatesOnce ==
    call.op = "rename_file" =>
        /\ Cardinality({ i \in DOMAIN frames : frames[i] = "rename_file" }) <= 1
        /\ frames = <<>> => (outcome.kind = "ok" /\ localOps = 1)

====
